---------------------------- MODULE Spec2Model ----------------------------
(***************************************************************************)
(* Correlation engine of backend/src/telegram/syntxService.ts: the shared  *)
(* poller that matches inbound video messages to pending jobs, by marker   *)
(* and by timestamp fallback, through the reservation store.               *)
(*                                                                         *)
(* One JavaScript event loop: every action below is one run-to-completion  *)
(* segment between two awaits.  Time is a logical clock in ticks; the      *)
(* millisecond constants of the source are scaled to ticks.                *)
(***************************************************************************)
EXTENDS Integers, Sequences, FiniteSets, TLC

\* ------------------------------------------------------------------ bounds
NumJobs == 2          \* dispatches (sendPromptToSyntx calls), one jobId each
MaxMsgs == 2          \* messages the inbound chat receives
MaxTime == 3          \* last tick of the clock
MaxPolls == 3         \* cap of a job's pollCount

\* ------------------------------------------------------- program constants
FALLBACK_POLLS_THRESHOLD == 3      \* SYNTX_FALLBACK_POLLS default
FALLBACK_WINDOW_MS == 1            \* 2 * 60 * 1000 ms, in ticks
DEFAULT_TIMEOUT_MS == 1            \* 30 * 60 * 1000 ms, in ticks
BATCH_LIMIT == 100                 \* getMessages(..., { limit: 100 })

Regs == 1..NumJobs
NoReg == 0
NoMark == 0                        \* jobIdMark === null
CreatedAts == {1}                  \* caller-supplied jobCreatedAt values

VARIABLES
  now,                  \* Date.now()
  disp,                 \* per dispatch: position of sendPromptToSyntx
  jobs,                 \* per dispatch: its PendingJobInfo object
  outcome,              \* per dispatch: how its promise was settled first
  settles,              \* per dispatch: number of resolve/reject calls
  pendingJobs,          \* the Map, as the sequence of its values in insertion order
  reservedMessageIds,   \* the Set
  currentClient,        \* currentClient and currentChat are set
  pollerRunning,
  assignmentsCacheLoaded,
  loopInstances,        \* pollLoop invocations that have not returned
  loop,                 \* where the pollLoop instance is suspended, with its locals
  store,                \* reservation store: message id -> owner
  chat,                 \* inbound chat, oldest message first
  lastGate,             \* the last answer of reserveSyntaxMessageId in this cycle
  overdue,              \* jobs whose deadline had passed when the cycle started
  markerDue,            \* the pairs of markerSeen whose message is the first uncached one for the job
  markerSeen,           \* <<job, message id>> pairs of the batch: video message marked for a pending job
  refused               \* message ids the store refused in this cycle

vars == <<now, disp, jobs, outcome, settles, pendingJobs, reservedMessageIds,
          currentClient, pollerRunning, assignmentsCacheLoaded, loopInstances,
          loop, store, chat, lastGate, overdue, markerDue, markerSeen, refused>>

\* ----------------------------------------------------------------- helpers
Min(S) == CHOOSE x \in S : \A y \in S : x <= y

Abs(x) == IF x < 0 THEN -x ELSE x

Reverse(s) == [i \in 1..Len(s) |-> s[Len(s) + 1 - i]]

Truthy(mark) == mark # NoMark

NoOutcome == [kind |-> "none", msg |-> 0, method |-> "none"]

NoJob == [jobId |-> 0, jobCreatedAt |-> 0, sentAt |-> 0, deadline |-> 0, pollCount |-> 0]

NoClaim == [reg |-> NoReg, msg |-> 0, method |-> "none"]

NoGate == [jobId |-> 0, msg |-> 0, method |-> "none", ok |-> FALSE]

\* The locals of a suspended pollLoop instance.
LoopAt(pc, ended) ==
  [pc |-> pc, ended |-> ended, phase |-> "none", vm |-> <<>>, idx |-> 0,
   ready |-> <<>>, fidx |-> 0, cands |-> <<>>, sel |-> 0, claim |-> NoClaim]

\* The process memory the poller works on.
Mem == [pend |-> pendingJobs, jobs |-> jobs, cache |-> reservedMessageIds,
        oc |-> outcome, st |-> settles]

\* ------------------------------------------------------- the Map operations
\* pendingJobs.get(jobId)
MapGet(pend, J, jid) ==
  LET S == {i \in 1..Len(pend) : J[pend[i]].jobId = jid}
  IN IF S = {} THEN NoReg ELSE pend[Min(S)]

\* pendingJobs.set(job.jobId, job): a present key keeps its place
MapSet(pend, J, r) ==
  IF MapGet(pend, J, J[r].jobId) = NoReg
  THEN Append(pend, r)
  ELSE [i \in 1..Len(pend) |-> IF J[pend[i]].jobId = J[r].jobId THEN r ELSE pend[i]]

\* pendingJobs.delete(jobId)
MapDelete(pend, J, jid) == SelectSeq(pend, LAMBDA x : J[x].jobId # jid)

\* job.resolve(...) / job.reject(...): a promise keeps its first settlement
Settle(M, r, res) ==
  [M EXCEPT !.oc[r] = IF @.kind = "none" THEN res ELSE @,
            !.st[r] = @ + 1]

\* ------------------------------------------------------ reservation store
Free == 0
Other == -1

\* reserveSyntaxMessageId(messageId, jobId, method): first writer wins
StoreGrants(st, m, jid) == st[m] = Free \/ st[m] = jid

StoreAfter(st, m, jid) == IF st[m] = Free THEN [st EXCEPT ![m] = jid] ELSE st

\* getAllReservedSyntaxMessageIds()
AllReserved(st) == {m \in DOMAIN st : st[m] # Free}

\* ------------------------------------------------------------ the matcher
\* getMessages(chat, { limit: 100 }): newest first
GetMessages(ch) ==
  LET r == Reverse(ch)
  IN SubSeq(r, 1, IF Len(r) < BATCH_LIMIT THEN Len(r) ELSE BATCH_LIMIT)

\* filterVideoMessages
FilterVideoMessages(messages) == SelectSeq(messages, LAMBDA m : m.isVideo)

\* matchMessagesByJobId leaving its loop at the first video without a marker
\* (break for continue)
NextMarkerClaimBreak(vm, i, M) ==
  LET S == {k \in i..Len(vm) :
              /\ \A j \in i..k : Truthy(vm[j].mark)
              /\ MapGet(M.pend, M.jobs, vm[k].mark) # NoReg
              /\ vm[k].id \notin M.cache}
  IN IF S = {} THEN 0 ELSE Min(S)

\* matchMessagesByJobId up to its next await: the index of the next video
\* message, from i on, that attemptAssignment takes to the store (0: none).
NextMarkerClaim(vm, i, M) ==
  LET S == {k \in i..Len(vm) :
              /\ Truthy(vm[k].mark)
              /\ MapGet(M.pend, M.jobs, vm[k].mark) # NoReg
              /\ vm[k].id \notin M.cache}
  IN IF S = {} THEN 0 ELSE Min(S)

\* collectFallbackReadyJobs with the threshold reached one poll early
CollectFallbackReadyJobsEarly(M) ==
  LET inc == {M.pend[i] : i \in 1..Len(M.pend)}
      J2 == [r \in DOMAIN M.jobs |->
               IF r \in inc THEN [M.jobs[r] EXCEPT !.pollCount = @ + 1] ELSE M.jobs[r]]
  IN [mem |-> [M EXCEPT !.jobs = J2],
      ready |-> SelectSeq(M.pend, LAMBDA r : J2[r].pollCount + 1 >= FALLBACK_POLLS_THRESHOLD)]

\* collectFallbackReadyJobs putting each ready job at the head of its list
\* (unshift for push)
CollectFallbackReadyJobsReversed(M) ==
  LET inc == {M.pend[i] : i \in 1..Len(M.pend)}
      J2 == [r \in DOMAIN M.jobs |->
               IF r \in inc THEN [M.jobs[r] EXCEPT !.pollCount = @ + 1] ELSE M.jobs[r]]
  IN [mem |-> [M EXCEPT !.jobs = J2],
      ready |-> Reverse(SelectSeq(M.pend,
                                  LAMBDA r : J2[r].pollCount >= FALLBACK_POLLS_THRESHOLD))]

\* collectFallbackReadyJobs
CollectFallbackReadyJobs(M) ==
  LET inc == {M.pend[i] : i \in 1..Len(M.pend)}
      J2 == [r \in DOMAIN M.jobs |->
               IF r \in inc THEN [M.jobs[r] EXCEPT !.pollCount = @ + 1] ELSE M.jobs[r]]
  IN [mem |-> [M EXCEPT !.jobs = J2],
      ready |-> SelectSeq(M.pend, LAMBDA r : J2[r].pollCount >= FALLBACK_POLLS_THRESHOLD)]

\* job.sentAt || job.jobCreatedAt
TargetTimestamp(job) == IF job.sentAt # 0 THEN job.sentAt ELSE job.jobCreatedAt

\* The inner loop of processFallbackMatches taking a candidate one tick
\* outside the window
SelectCandidateWide(job, cands, cache) ==
  LET diff(i) == Abs(cands[i].dateMs - TargetTimestamp(job))
      ok == {i \in 1..Len(cands) :
               cands[i].id \notin cache /\ diff(i) <= FALLBACK_WINDOW_MS + 1}
  IN IF ok = {} THEN 0
     ELSE Min({i \in ok : \A j \in ok : diff(i) <= diff(j)})

\* The inner loop of processFallbackMatches: the index in cands of the
\* selected candidate (0: none).
SelectCandidate(job, cands, cache) ==
  LET diff(i) == Abs(cands[i].dateMs - TargetTimestamp(job))
      ok == {i \in 1..Len(cands) :
               cands[i].id \notin cache /\ diff(i) <= FALLBACK_WINDOW_MS}
  IN IF ok = {} THEN 0
     ELSE Min({i \in ok : \A j \in ok : diff(i) <= diff(j)})

\* processFallbackMatches up to its next await: the index of the next job of
\* the ready list, from k on, that has a candidate (0: none).
NextFallbackClaim(ready, k, cands, M) ==
  LET S == {j \in k..Len(ready) : SelectCandidate(M.jobs[ready[j]], cands, M.cache) # 0}
  IN IF S = {} THEN 0 ELSE Min(S)

\* checkPendingTimeouts stopping after the first late job it removes
CheckPendingTimeoutsFirst(M, t) ==
  LET lateAt == {i \in 1..Len(M.pend) : t > M.jobs[M.pend[i]].deadline}
      late == IF lateAt = {} THEN {} ELSE {M.pend[Min(lateAt)]}
  IN [M EXCEPT
        !.pend = SelectSeq(@, LAMBDA r : r \notin late),
        !.oc = [r \in DOMAIN @ |->
                  IF r \in late /\ @[r].kind = "none"
                  THEN [kind |-> "timeout", msg |-> 0, method |-> "none"] ELSE @[r]],
        !.st = [r \in DOMAIN @ |-> IF r \in late THEN @[r] + 1 ELSE @[r]]]

\* checkPendingTimeouts rejecting the late jobs and leaving them in the Map
CheckPendingTimeoutsKeep(M, t) ==
  LET late == {r \in {M.pend[i] : i \in 1..Len(M.pend)} : t > M.jobs[r].deadline}
  IN [M EXCEPT
        !.oc = [r \in DOMAIN @ |->
                  IF r \in late /\ @[r].kind = "none"
                  THEN [kind |-> "timeout", msg |-> 0, method |-> "none"] ELSE @[r]],
        !.st = [r \in DOMAIN @ |-> IF r \in late THEN @[r] + 1 ELSE @[r]]]

\* checkPendingTimeouts
CheckPendingTimeouts(M, t) ==
  LET late == {r \in {M.pend[i] : i \in 1..Len(M.pend)} : t > M.jobs[r].deadline}
  IN [M EXCEPT
        !.pend = SelectSeq(@, LAMBDA r : r \notin late),
        !.oc = [r \in DOMAIN @ |->
                  IF r \in late /\ @[r].kind = "none"
                  THEN [kind |-> "timeout", msg |-> 0, method |-> "none"] ELSE @[r]],
        !.st = [r \in DOMAIN @ |-> IF r \in late THEN @[r] + 1 ELSE @[r]]]

\* attemptAssignment settling the job whatever the store answered
AttemptAssignmentUngated(M, c, reserved) ==
  Settle([M EXCEPT !.cache = @ \cup {c.msg},
                   !.pend = MapDelete(@, M.jobs, M.jobs[c.reg].jobId)],
         c.reg,
         [kind |-> "matched", msg |-> c.msg, method |-> c.method])

\* attemptAssignment going by the local cache alone: a refused claim of an id
\* the cache did not hold settles the job as well
AttemptAssignmentByCache(M, c, reserved) ==
  IF c.msg \in M.cache
  THEN M
  ELSE AttemptAssignmentUngated(M, c, reserved)

\* attemptAssignment leaving the cache as it is when the store refuses
AttemptAssignmentForget(M, c, reserved) ==
  IF ~reserved
  THEN M
  ELSE Settle([M EXCEPT !.cache = @ \cup {c.msg},
                        !.pend = MapDelete(@, M.jobs, M.jobs[c.reg].jobId)],
              c.reg,
              [kind |-> "matched", msg |-> c.msg, method |-> c.method])

\* attemptAssignment after its await, lines 444-464
AttemptAssignmentReturn(M, c, reserved) ==
  IF ~reserved
  THEN [M EXCEPT !.cache = @ \cup {c.msg}]
  ELSE Settle([M EXCEPT !.cache = @ \cup {c.msg},
                        !.pend = MapDelete(@, M.jobs, M.jobs[c.reg].jobId)],
              c.reg,
              [kind |-> "matched", msg |-> c.msg, method |-> c.method])

\* pollOnce from processFallbackMatches' job k on, to the next await or the end
FallbackFrom(M, ready, k, cands, t) ==
  LET k2 == NextFallbackClaim(ready, k, cands, M)
  IN IF k2 # 0
     THEN LET s == SelectCandidate(M.jobs[ready[k2]], cands, M.cache)
          IN [mem |-> M,
              loop |-> [LoopAt("claim", "none") EXCEPT
                          !.phase = "fallback", !.ready = ready, !.fidx = k2,
                          !.cands = cands, !.sel = s,
                          !.claim = [reg |-> ready[k2], msg |-> cands[s].id,
                                     method |-> "timestamp"]]]
     ELSE [mem |-> CheckPendingTimeouts(M, t), loop |-> LoopAt("sleep", "swept")]

\* pollOnce from collectFallbackReadyJobs on, with every video message of the
\* batch, marked or not, in the pool of the fallback
AfterMarkersAnyVideo(M, vm, t) ==
  LET C == CollectFallbackReadyJobs(M)
  IN FallbackFrom(C.mem, C.ready, 1, vm, t)

\* pollOnce from collectFallbackReadyJobs on
AfterMarkers(M, vm, t) ==
  LET C == CollectFallbackReadyJobs(M)
  IN FallbackFrom(C.mem, C.ready, 1, SelectSeq(vm, LAMBDA m : ~Truthy(m.mark)), t)

\* pollOnce from matchMessagesByJobId's message i on
MarkersFrom(M, vm, i, t) ==
  LET k == NextMarkerClaim(vm, i, M)
  IN IF k # 0
     THEN [mem |-> M,
           loop |-> [LoopAt("claim", "none") EXCEPT
                       !.phase = "marker", !.vm = vm, !.idx = k,
                       !.claim = [reg |-> MapGet(M.pend, M.jobs, vm[k].mark),
                                  msg |-> vm[k].id, method |-> "jobId"]]]
     ELSE AfterMarkers(M, vm, t)

\* pollLoop's while test followed by pollOnce up to getMessages
PollLoopTop(pend, client) ==
  IF Len(pend) > 0
  THEN (IF client THEN LoopAt("fetch", "none") ELSE LoopAt("sleep", "skipped"))
  ELSE LoopAt("idle", "none")

\* ensurePolling without the test of pollerRunning
EnsurePollingUnguarded(running, n, lp, pend, client) ==
  [running |-> TRUE, n |-> n + 1, loop |-> PollLoopTop(pend, client), started |-> TRUE]

\* ensurePolling
EnsurePolling(running, n, lp, pend, client) ==
  IF running
  THEN [running |-> TRUE, n |-> n, loop |-> lp, started |-> FALSE]
  ELSE [running |-> TRUE, n |-> n + 1, loop |-> PollLoopTop(pend, client), started |-> TRUE]

\* ------------------------------------------------------------------ state
MsgIds == 1..MaxMsgs

\* What an arriving message can be: a video with the marker of a job or with
\* none, or a text-only message that quotes the marker of the first job.
MsgKinds ==
  {[isVideo |-> TRUE, mark |-> mk] : mk \in {NoMark} \cup Regs}
    \cup {[isVideo |-> FALSE, mark |-> 1]}

Init ==
  /\ now = 1
  /\ disp = [r \in Regs |-> "idle"]
  /\ jobs = [r \in Regs |-> NoJob]
  /\ outcome = [r \in Regs |-> NoOutcome]
  /\ settles = [r \in Regs |-> 0]
  /\ pendingJobs = <<>>
  /\ reservedMessageIds = {}
  /\ currentClient = FALSE
  /\ pollerRunning = FALSE
  /\ assignmentsCacheLoaded = FALSE
  /\ loopInstances = 0
  /\ loop = LoopAt("idle", "none")
  /\ store = [m \in MsgIds |-> Free]
  /\ chat = <<>>
  /\ lastGate = NoGate
  /\ overdue = {}
  /\ markerDue = {}
  /\ markerSeen = {}
  /\ refused = {}

\* The jobs of pend whose deadline has passed at time t.
Overdue(pend, J, t) == {r \in {pend[i] : i \in 1..Len(pend)} : t > J[r].deadline}

\* What a new cycle forgets of the cycle before.
NewCycle(pend, J) ==
  /\ lastGate' = NoGate
  /\ overdue' = Overdue(pend, J, now)
  /\ markerDue' = {}
  /\ markerSeen' = {}
  /\ refused' = {}

SameCycle == UNCHANGED <<lastGate, overdue, markerDue, markerSeen, refused>>

\* ----------------------------------------------------------- the dispatcher
\* waitForVideoViaPoller, lines 244-267: register the job and start the poller
Register(r, job) ==
  LET J2 == [jobs EXCEPT ![r] = [job EXCEPT !.deadline = now + DEFAULT_TIMEOUT_MS,
                                            !.pollCount = 0]]
      pend2 == MapSet(pendingJobs, J2, r)
      E == EnsurePolling(pollerRunning, loopInstances, loop, pend2, TRUE)
  IN /\ jobs' = J2
     /\ pendingJobs' = pend2
     /\ pollerRunning' = E.running
     /\ loopInstances' = E.n
     /\ loop' = E.loop
     /\ disp' = [disp EXCEPT ![r] = "registered"]
     /\ IF E.started THEN NewCycle(pend2, J2) ELSE SameCycle

\* The calls of sendPromptToSyntx are numbered in the order they are made.
Callable(r) == disp[r] = "idle" /\ \A q \in Regs : q < r => disp[q] # "idle"

\* sendPromptToSyntx, lines 129-162, with sendMessage returning, and
\* waitForVideoViaPoller to its first await.  currentClient is written before
\* the send and read only by pollOnce, which runs after a registration, so the
\* awaits before the send are not kept apart.
SendOk(r, c) ==
  /\ Callable(r)
  /\ currentClient' = TRUE
  /\ LET opts == [NoJob EXCEPT !.jobId = r, !.jobCreatedAt = c, !.sentAt = now]
     IN IF assignmentsCacheLoaded
        THEN /\ Register(r, opts)
             /\ UNCHANGED <<reservedMessageIds, assignmentsCacheLoaded>>
        ELSE /\ disp' = [disp EXCEPT ![r] = "loading"]
             /\ jobs' = [jobs EXCEPT ![r] = opts]
             /\ UNCHANGED <<pendingJobs, pollerRunning, loopInstances, loop,
                            reservedMessageIds, assignmentsCacheLoaded>>
             /\ SameCycle
  /\ UNCHANGED <<now, outcome, settles, store, chat>>

\* sendPromptToSyntx registering the job before the send that then throws
SendFailRegistered(r) ==
  /\ Callable(r)
  /\ currentClient' = TRUE
  /\ LET J2 == [jobs EXCEPT ![r] = [NoJob EXCEPT !.jobId = r, !.sentAt = now,
                                                 !.deadline = now + DEFAULT_TIMEOUT_MS]]
         pend2 == MapSet(pendingJobs, J2, r)
         E == EnsurePolling(pollerRunning, loopInstances, loop, pend2, TRUE)
     IN /\ jobs' = J2
        /\ pendingJobs' = pend2
        /\ pollerRunning' = E.running
        /\ loopInstances' = E.n
        /\ loop' = E.loop
        /\ IF E.started THEN NewCycle(pend2, J2) ELSE SameCycle
  /\ disp' = [disp EXCEPT ![r] = "sendFailed"]
  /\ UNCHANGED <<now, outcome, settles, reservedMessageIds, assignmentsCacheLoaded,
                 store, chat>>

\* sendPromptToSyntx with sendMessage throwing: the error leaves the function
SendFail(r) ==
  /\ Callable(r)
  /\ currentClient' = TRUE
  /\ disp' = [disp EXCEPT ![r] = "sendFailed"]
  /\ UNCHANGED <<now, jobs, outcome, settles, pendingJobs, reservedMessageIds,
                 pollerRunning, assignmentsCacheLoaded, loopInstances,
                 loop, store, chat>>
  /\ SameCycle

\* ensureAssignmentsCache after its await, then the registration
CacheLoaded(r) ==
  /\ disp[r] = "loading"
  /\ reservedMessageIds' = reservedMessageIds \cup AllReserved(store)
  /\ assignmentsCacheLoaded' = TRUE
  /\ Register(r, jobs[r])
  /\ UNCHANGED <<now, outcome, settles, currentClient, store, chat>>

\* getAllReservedSyntaxMessageIds threw
CacheLoadFail(r) ==
  /\ disp[r] = "loading"
  /\ disp' = [disp EXCEPT ![r] = "loadFailed"]
  /\ UNCHANGED <<now, jobs, outcome, settles, pendingJobs, reservedMessageIds,
                 currentClient, pollerRunning, assignmentsCacheLoaded, loopInstances,
                 loop, store, chat>>
  /\ SameCycle

\* ---------------------------------------------------------------- the poller
\* The result of a run of pollOnce to its next await becomes the state.
Apply(R) ==
  /\ pendingJobs' = R.mem.pend
  /\ jobs' = R.mem.jobs
  /\ reservedMessageIds' = R.mem.cache
  /\ outcome' = R.mem.oc
  /\ settles' = R.mem.st
  /\ loop' = R.loop

Pending == {pendingJobs[i] : i \in 1..Len(pendingJobs)}

\* The <<job, message id>> pairs of a batch: a video message whose marker is
\* the jobId of a pending job below the fallback threshold.
MarkerPairs(vm) ==
  {p \in Pending \X {vm[k].id : k \in 1..Len(vm)} :
     /\ jobs[p[1]].pollCount < FALLBACK_POLLS_THRESHOLD
     /\ \E k \in 1..Len(vm) : vm[k].id = p[2] /\ vm[k].mark = jobs[p[1]].jobId}

\* Of those, per job, the first message of the batch that is not cached as reserved.
FirstMarkerPairs(vm) ==
  {p \in MarkerPairs(vm) :
     /\ p[2] \notin reservedMessageIds
     /\ \A k \in 1..Len(vm) :
          (vm[k].id = p[2]) =>
             \A i \in 1..(k - 1) :
                ~(vm[i].mark = jobs[p[1]].jobId /\ vm[i].id \notin reservedMessageIds)}

\* getMessages returned: lines 301-314 to the next await
FetchReturn ==
  /\ loop.pc = "fetch"
  /\ \A r \in Pending : jobs[r].pollCount < MaxPolls
  /\ LET vm == FilterVideoMessages(GetMessages(chat))
     IN /\ \E R \in {MarkersFrom(Mem, vm, 1, now)} : Apply(R)
        /\ markerSeen' = MarkerPairs(vm)
        /\ markerDue' = FirstMarkerPairs(vm)
  /\ UNCHANGED <<now, disp, currentClient, pollerRunning, assignmentsCacheLoaded,
                 loopInstances, store, chat, lastGate, overdue, refused>>

\* getMessages threw, with the timeout sweep run all the same
FetchFailSwept ==
  /\ loop.pc = "fetch"
  /\ LET M1 == CheckPendingTimeouts(Mem, now)
     IN /\ pendingJobs' = M1.pend
        /\ outcome' = M1.oc
        /\ settles' = M1.st
  /\ loop' = LoopAt("sleep", "fetchFailed")
  /\ UNCHANGED <<now, disp, jobs, reservedMessageIds, currentClient, pollerRunning,
                 assignmentsCacheLoaded, loopInstances, store, chat,
                 lastGate, overdue, markerDue, markerSeen, refused>>

\* getMessages threw: caught in pollLoop, which goes to its delay
FetchFail ==
  /\ loop.pc = "fetch"
  /\ loop' = LoopAt("sleep", "fetchFailed")
  /\ UNCHANGED <<now, disp, jobs, outcome, settles, pendingJobs, reservedMessageIds,
                 currentClient, pollerRunning, assignmentsCacheLoaded, loopInstances,
                 store, chat>>
  /\ SameCycle

\* candidates.splice(candidates.indexOf(selected), 1)
Splice(s, i) == [j \in 1..(Len(s) - 1) |-> IF j < i THEN s[j] ELSE s[j + 1]]

\* reserveSyntaxMessageId returned: attemptAssignment and pollOnce go on
ClaimReturn ==
  /\ loop.pc = "claim"
  /\ LET c == loop.claim
         jid == jobs[c.reg].jobId
         ok == StoreGrants(store, c.msg, jid)
     IN /\ store' = (IF ok THEN StoreAfter(store, c.msg, jid) ELSE store)
        /\ lastGate' = [jobId |-> jid, msg |-> c.msg, method |-> c.method, ok |-> ok]
        /\ refused' = (IF ok THEN refused ELSE refused \cup {c.msg})
        /\ \E M1 \in {AttemptAssignmentReturn(Mem, c, ok)} :
             \E R \in {IF loop.phase = "marker"
                       THEN MarkersFrom(M1, loop.vm, loop.idx + 1, now)
                       ELSE FallbackFrom(M1, loop.ready, loop.fidx + 1,
                                         Splice(loop.cands, loop.sel), now)} :
               Apply(R)
  /\ UNCHANGED <<now, disp, currentClient, pollerRunning, assignmentsCacheLoaded,
                 loopInstances, chat, overdue, markerDue, markerSeen>>

\* attemptAssignment adding the id to the cache before its await, and
\* reserveSyntaxMessageId throwing
ClaimFailCached ==
  /\ loop.pc = "claim"
  /\ loop' = LoopAt("sleep", "claimFailed")
  /\ reservedMessageIds' = reservedMessageIds \cup {loop.claim.msg}
  /\ UNCHANGED <<now, disp, jobs, outcome, settles, pendingJobs,
                 currentClient, pollerRunning, assignmentsCacheLoaded, loopInstances,
                 store, chat>>
  /\ SameCycle

\* reserveSyntaxMessageId threw: pollOnce is left, caught in pollLoop
ClaimFail ==
  /\ loop.pc = "claim"
  /\ loop' = LoopAt("sleep", "claimFailed")
  /\ UNCHANGED <<now, disp, jobs, outcome, settles, pendingJobs, reservedMessageIds,
                 currentClient, pollerRunning, assignmentsCacheLoaded, loopInstances,
                 store, chat>>
  /\ SameCycle

\* pollLoop with an if for its while: after the delay it returns
PollLoopWakeReturn ==
  /\ loop.pc = "sleep"
  /\ loop' = LoopAt("idle", "none")
  /\ pollerRunning' = FALSE
  /\ loopInstances' = loopInstances - 1
  /\ NewCycle(pendingJobs, jobs)
  /\ UNCHANGED <<now, disp, jobs, outcome, settles, pendingJobs, reservedMessageIds,
                 currentClient, assignmentsCacheLoaded, store, chat>>

\* delay(POLL_INTERVAL_MS) is over: the while test of pollLoop, lines 281-289
PollLoopWake ==
  /\ loop.pc = "sleep"
  /\ loop' = PollLoopTop(pendingJobs, currentClient)
  /\ IF Len(pendingJobs) > 0
     THEN UNCHANGED <<pollerRunning, loopInstances>>
     ELSE /\ pollerRunning' = FALSE
          /\ loopInstances' = loopInstances - 1
  /\ NewCycle(pendingJobs, jobs)
  /\ UNCHANGED <<now, disp, jobs, outcome, settles, pendingJobs, reservedMessageIds,
                 currentClient, assignmentsCacheLoaded, store, chat>>

\* ----------------------------------------------------------- the environment
\* The environment is followed while a call can still be made or is under way.
Live == \E r \in Regs : disp[r] \in {"idle", "loading"} \/ r \in Pending

\* The bot (or anyone) posts a message into the chat.  filterVideoMessages
\* keeps the date of the video messages only.
Arrive(k) ==
  /\ Len(chat) < MaxMsgs
  /\ Live
  /\ chat' = Append(chat, [id |-> Len(chat) + 1, isVideo |-> k.isVideo, mark |-> k.mark,
                           dateMs |-> IF k.isVideo THEN now ELSE 0])
  /\ UNCHANGED <<now, disp, jobs, outcome, settles, pendingJobs, reservedMessageIds,
                 currentClient, pollerRunning, assignmentsCacheLoaded, loopInstances,
                 loop, store>>
  /\ SameCycle

\* Another process reserves a message through the same store.
OtherReserve(m) ==
  /\ m \in 1..Len(chat)
  /\ chat[m].isVideo
  /\ Live
  /\ store[m] = Free
  /\ store' = [store EXCEPT ![m] = Other]
  /\ UNCHANGED <<now, disp, jobs, outcome, settles, pendingJobs, reservedMessageIds,
                 currentClient, pollerRunning, assignmentsCacheLoaded, loopInstances,
                 loop, chat>>
  /\ SameCycle

Tick ==
  /\ now < MaxTime
  /\ Live
  /\ now' = now + 1
  /\ UNCHANGED <<disp, jobs, outcome, settles, pendingJobs, reservedMessageIds,
                 currentClient, pollerRunning, assignmentsCacheLoaded, loopInstances,
                 loop, store, chat>>
  /\ SameCycle

Next ==
  \/ \E r \in Regs, c \in CreatedAts : SendOk(r, c)
  \/ \E r \in Regs : SendFail(r)
  \/ \E r \in Regs : CacheLoaded(r)
  \/ \E r \in Regs : CacheLoadFail(r)
  \/ FetchReturn
  \/ FetchFail
  \/ ClaimReturn
  \/ ClaimFail
  \/ PollLoopWake
  \/ \E k \in MsgKinds : Arrive(k)
  \/ \E m \in MsgIds : OtherReserve(m)
  \/ Tick

Spec == Init /\ [][Next]_vars

\* ------------------------------------------------------------------ claims
Matched(r, m) == outcome[r].kind = "matched" /\ outcome[r].msg = m

\* C1 - No double-claim: for every message id, at most one claimant is ever
\* bound to it, counting the jobs of this process settled as matched with it
\* and the other process when it owns the id in the store.
C1_NoDoubleClaim ==
  \A m \in MsgIds :
    Cardinality({r \in Regs : Matched(r, m)}) + (IF store[m] = Other THEN 1 ELSE 0) <= 1

\* Two jobs are fallback-ready in the same cycle, the first was settled by
\* timestamp with a message that lies in the window of the second too, and the
\* second is now claiming a different message.
C1_Witness ==
  /\ loop.pc = "claim" /\ loop.phase = "fallback" /\ loop.fidx = 2
  /\ LET a == loop.ready[1]
         b == loop.ready[2]
     IN /\ outcome[a].kind = "matched" /\ outcome[a].method = "timestamp"
        /\ outcome[a].msg # loop.claim.msg
        /\ outcome[a].msg \in reservedMessageIds
        /\ Abs(chat[outcome[a].msg].dateMs - TargetTimestamp(jobs[b])) <= FALLBACK_WINDOW_MS

\* C2 - Single settlement: a job's promise is settled at most once, and a job
\* is in pendingJobs exactly while it is registered and not settled.
C2_SingleSettlement ==
  \A r \in Regs :
    /\ settles[r] <= 1
    /\ (settles[r] = 1) <=> (outcome[r].kind # "none")
    /\ r \in Pending => outcome[r].kind = "none"
    /\ (disp[r] = "registered" /\ outcome[r].kind = "none") => r \in Pending

\* One job was settled as matched and another as timed out.
C2_Witness ==
  \E a, b \in Regs :
    /\ outcome[a].kind = "matched" /\ outcome[b].kind = "timeout"
    /\ settles[a] = 1 /\ settles[b] = 1
    /\ pendingJobs = <<>>

\* C3 - Every match goes through the gate: a step that settles a job as
\* matched with message m by some method is the step in which the store
\* answered true to reserveSyntaxMessageId(m, jobId, method) for that job.
C3_MatchThroughGate ==
  [][\A r \in Regs :
       (outcome[r].kind = "none" /\ outcome'[r].kind = "matched") =>
          lastGate' = [jobId |-> jobs[r].jobId, msg |-> outcome'[r].msg,
                       method |-> outcome'[r].method, ok |-> TRUE]]_vars

\* A job was settled by marker in the step in which the store granted the claim.
C3_Witness ==
  \E r \in Regs :
    /\ outcome[r].kind = "matched" /\ outcome[r].method = "jobId"
    /\ lastGate = [jobId |-> jobs[r].jobId, msg |-> outcome[r].msg,
                   method |-> "jobId", ok |-> TRUE]

\* C6 - Single loop instance: at most one pollLoop instance is active, and
\* pollerRunning says whether one is; a registration made while none is active
\* starts exactly one, a registration made while one is active (suspended at
\* the fetch, at a claim or in the sleep) starts none.
C6_SingleLoopInstance ==
  /\ [](/\ loopInstances <= 1
        /\ pollerRunning <=> (loopInstances = 1)
        /\ (loop.pc # "idle") <=> (loopInstances = 1))
  /\ [][\A r \in Regs :
          (disp[r] # "registered" /\ disp'[r] = "registered") =>
             loopInstances' = (IF loopInstances = 0 THEN 1 ELSE loopInstances)]_vars

\* A job was registered while the instance that serves an older job was
\* running; that instance is now suspended at a claim and is the only one.
C6_Witness ==
  /\ loop.pc = "claim"
  /\ loopInstances = 1
  /\ \E a, b \in Pending : jobs[a].pollCount > 0 /\ jobs[b].pollCount = 0

\* C8 - Fetch failure changes nothing: the step in which getMessages fails
\* leaves the registry, every job, the reserved cache, the store and every
\* promise as they were and puts the loop to sleep; the loop instance stays
\* alive, and its next step with a non-empty registry is the next fetch.
C8_FetchFailureChangesNothing ==
  /\ [][(loop.pc = "fetch" /\ loop'.pc = "sleep" /\ loop'.ended = "fetchFailed") =>
          UNCHANGED <<pendingJobs, jobs, reservedMessageIds, store, outcome, settles,
                      pollerRunning, loopInstances>>]_vars
  /\ [][(loop.pc = "sleep" /\ loop.ended = "fetchFailed" /\ loop' # loop) =>
          IF Len(pendingJobs) > 0
          THEN loop'.pc = "fetch" /\ pollerRunning' /\ loopInstances' = 1
          ELSE loop'.pc = "idle"]_vars

\* The fetch failed in a cycle that began with a job past its deadline: the
\* job is still pending and unsettled.
C8_Witness ==
  /\ loop.pc = "sleep" /\ loop.ended = "fetchFailed"
  /\ \E r \in Pending : r \in overdue /\ outcome[r].kind = "none" /\ jobs[r].pollCount > 0

\* C9 - Failed dispatch registers nothing: the step in which the outbound send
\* fails leaves the registry, the jobs, pollerRunning and the loop as they
\* were, and a call that failed so is never in the registry nor settled.
C9_FailedDispatchRegistersNothing ==
  /\ [][\A r \in Regs :
          (disp[r] # "sendFailed" /\ disp'[r] = "sendFailed") =>
             UNCHANGED <<pendingJobs, jobs, pollerRunning, loopInstances, loop,
                         reservedMessageIds, outcome, settles>>]_vars
  /\ [](\A r \in Regs :
          disp[r] = "sendFailed" => r \notin Pending /\ settles[r] = 0)

\* The first dispatch failed at the send: no job is registered and the poller
\* is not running.
C9_Witness ==
  /\ disp[1] = "sendFailed"
  /\ pendingJobs = <<>> /\ ~pollerRunning /\ loopInstances = 0
  /\ disp[2] = "idle"

\* C10 - Fallback threshold boundary: the jobs offered to the fallback in a
\* cycle are exactly the pending jobs whose pollCount, after the cycle's
\* increment, is >= the threshold; a job below it is offered no candidate, and
\* no job settles by timestamp with a pollCount below the threshold.
C10_ThresholdBoundary ==
  /\ \A r \in Regs :
       outcome[r].method = "timestamp" => jobs[r].pollCount >= FALLBACK_POLLS_THRESHOLD
  /\ (loop.pc = "claim" /\ loop.phase = "fallback") =>
       /\ \A i \in 1..Len(loop.ready) :
            jobs[loop.ready[i]].pollCount >= FALLBACK_POLLS_THRESHOLD
       /\ \A r \in Pending :
            jobs[r].pollCount >= FALLBACK_POLLS_THRESHOLD =>
               \E i \in 1..Len(loop.ready) : loop.ready[i] = r
       /\ jobs[loop.claim.reg].pollCount >= FALLBACK_POLLS_THRESHOLD

\* In one cycle a job whose pollCount has just reached the threshold is
\* offered a candidate while a job at threshold - 1 is left out.
C10_Witness ==
  /\ loop.pc = "claim" /\ loop.phase = "fallback"
  /\ jobs[loop.claim.reg].pollCount = FALLBACK_POLLS_THRESHOLD
  /\ \E r \in Pending :
       /\ jobs[r].pollCount = FALLBACK_POLLS_THRESHOLD - 1
       /\ \A i \in 1..Len(loop.ready) : loop.ready[i] # r

\* The marker and fallback phases of the cycle are over / the whole cycle is.
MarkersDone ==
  \/ loop.pc = "claim" /\ loop.phase = "fallback"
  \/ loop.pc = "sleep" /\ loop.ended = "swept"

LoopStep == PollLoopWake \/ FetchFail \/ ClaimFail \/ FetchReturn \/ ClaimReturn

\* The await of a dispatch on the load of the reserved ids comes back.
LoadStep == \E r \in Regs : CacheLoaded(r) \/ CacheLoadFail(r)

\* Time advances, and every await comes back.
Fairness == WF_vars(Tick) /\ WF_vars(LoopStep) /\ WF_vars(LoadStep)

FairSpec == Spec /\ Fairness

\* The fair runs in which sendPromptToSyntx is called once.
OneJobNext ==
  \/ \E c \in CreatedAts : SendOk(1, c)
  \/ CacheLoaded(1)
  \/ CacheLoadFail(1)
  \/ FetchReturn
  \/ FetchFail
  \/ ClaimReturn
  \/ ClaimFail
  \/ PollLoopWake
  \/ \E k \in MsgKinds : Arrive(k)
  \/ \E m \in MsgIds : OtherReserve(m)
  \/ Tick

OneJobFairSpec == Init /\ [][OneJobNext]_vars /\ Fairness

\* C7 - Eventual settlement: a registered job whose deadline has passed is
\* eventually settled, whatever the fetches and the claims return or fail with.
C7_EventualSettlement ==
  \A r \in Regs :
    (r \in Pending /\ now > jobs[r].deadline) ~> (outcome[r].kind # "none")

\* ------------------------------------------------------- the fallback window
\* |candidate.dateMs - targetTimestamp| of message m for job r
Distance(r, m) == Abs(chat[m].dateMs - TargetTimestamp(jobs[r]))

\* C11 - Fallback window boundary: a job settles by timestamp, and is offered
\* a candidate, only at a distance <= FALLBACK_WINDOW_MS from its reference
\* time; and a fallback-ready job the cycle has passed without offering it
\* anything (no claim was refused in the cycle) has no uncached candidate left
\* in the pool at a distance <= FALLBACK_WINDOW_MS, the distance equal to the
\* window included.
C11_WindowBoundary ==
  /\ \A r \in Regs :
       outcome[r].method = "timestamp" => Distance(r, outcome[r].msg) <= FALLBACK_WINDOW_MS
  /\ (loop.pc = "claim" /\ loop.phase = "fallback") =>
       /\ Distance(loop.claim.reg, loop.claim.msg) <= FALLBACK_WINDOW_MS
       /\ refused = {} =>
            \A i \in 1..(loop.fidx - 1) :
              loop.ready[i] \in Pending =>
                \A j \in 1..Len(loop.cands) :
                  loop.cands[j].id \notin reservedMessageIds =>
                    Distance(loop.ready[i], loop.cands[j].id) > FALLBACK_WINDOW_MS

\* A job was settled by timestamp with a message at a distance of exactly the
\* window, while a message beyond the window was in the chat.
C11_Witness ==
  \E r \in Regs :
    /\ outcome[r].method = "timestamp"
    /\ Distance(r, outcome[r].msg) = FALLBACK_WINDOW_MS
    /\ \E m \in 1..Len(chat) :
         /\ chat[m].isVideo /\ ~Truthy(chat[m].mark)
         /\ Distance(r, m) > FALLBACK_WINDOW_MS

\* ------------------------------------------------------ the reference time
\* The caller's jobCreatedAt can lie after the moment the prompt is sent.
LateCreatedAts == {MaxTime}

\* The runs of one call of sendPromptToSyntx whose jobCreatedAt is late.
LateNext ==
  \/ \E c \in LateCreatedAts : SendOk(1, c)
  \/ CacheLoaded(1)
  \/ FetchReturn
  \/ ClaimReturn
  \/ PollLoopWake
  \/ \E k \in MsgKinds : Arrive(k)
  \/ Tick

LateSpec == Init /\ [][LateNext]_vars

Max(a, b) == IF a >= b THEN a ELSE b

\* C12 - Fallback selection: the candidate proposed to a fallback-ready job
\* is, among the unmarked video messages still in the pool and not cached as
\* reserved, the one whose date is closest to max(sentAt, jobCreatedAt) of the
\* job and within the window of it, the first of the batch among the closest.
C12_FallbackSelection ==
  (loop.pc = "claim" /\ loop.phase = "fallback") =>
    LET job == jobs[loop.claim.reg]
        ref == Max(job.sentAt, job.jobCreatedAt)
        d(j) == Abs(loop.cands[j].dateMs - ref)
        open == {j \in 1..Len(loop.cands) :
                   loop.cands[j].id \notin reservedMessageIds \/ j = loop.sel}
    IN /\ ~Truthy(loop.cands[loop.sel].mark)
       /\ d(loop.sel) <= FALLBACK_WINDOW_MS
       /\ \A j \in open : d(loop.sel) <= d(j)
       /\ \A j \in open : d(j) = d(loop.sel) => loop.sel <= j

\* ------------------------------------------------------------ the wake-up
\* C13 - No lost wake-up: while pendingJobs is not empty the poll loop is
\* running (pollerRunning is true and one instance is active); pollerRunning
\* goes from true to false only in the step in which the instance, waking from
\* its sleep, finds the registry empty and returns; and an instance that wakes
\* from its sleep with a job in the registry goes to the next fetch.
C13_NoLostWakeup ==
  /\ [](Len(pendingJobs) > 0 =>
          pollerRunning /\ loopInstances = 1 /\ loop.pc # "idle")
  /\ [][(pollerRunning /\ ~pollerRunning') =>
          /\ pendingJobs = <<>> /\ pendingJobs' = <<>>
          /\ loop.pc = "sleep" /\ loop'.pc = "idle"]_vars
  /\ [][(loop.pc = "sleep" /\ loop' # loop /\ Len(pendingJobs) > 0) =>
          loop'.pc = "fetch" /\ pollerRunning' /\ loopInstances' = 1]_vars

\* The instance sleeps after the cycle that emptied the registry (the first
\* cycle of a job, which settled it by marker), and a job registered during
\* that sleep is the only one in the registry.
C13_Witness ==
  /\ loop.pc = "sleep" /\ loop.ended = "swept"
  /\ pollerRunning /\ loopInstances = 1
  /\ \E a, r \in Regs :
       /\ outcome[a].method = "jobId" /\ jobs[a].pollCount = 0
       /\ pendingJobs = <<r>> /\ jobs[r].pollCount = 0

\* -------------------------------------------------------- a refused claim
\* The step in which reserveSyntaxMessageId comes back with false.
Refusal ==
  /\ loop.pc = "claim" /\ loop' # loop /\ loop'.ended # "claimFailed"
  /\ lastGate'.method # "none" /\ ~lastGate'.ok

\* C14 - Lost claim race: the step in which the store answers false to a
\* claim puts the message id into reservedMessageIds and leaves the job as it
\* was, pending and unsettled with its deadline (only the timeout sweep of the
\* same cycle can settle it, when its deadline has passed); no id of
\* reservedMessageIds ever leaves it, and no claim is ever proposed for an id
\* that is in reservedMessageIds.
C14_LostClaimRace ==
  /\ [][Refusal =>
          LET r == loop.claim.reg
          IN /\ loop.claim.msg \in reservedMessageIds'
             /\ jobs'[r].deadline = jobs[r].deadline
             /\ outcome'[r].kind # "matched"
             /\ IF loop'.ended = "swept" /\ now > jobs[r].deadline
                THEN outcome'[r].kind = "timeout" /\ r \notin Pending'
                ELSE outcome'[r].kind = "none" /\ r \in Pending'
                       /\ settles'[r] = settles[r]]_vars
  /\ [][reservedMessageIds \subseteq reservedMessageIds']_vars
  /\ [][(loop'.pc = "claim" /\ loop' # loop) =>
          /\ loop'.claim.msg \notin reservedMessageIds
          /\ loop'.claim.msg \notin reservedMessageIds']_vars

\* The store has refused a fallback claim of one job in this cycle; that job
\* is still pending, the id is cached, and the next job of the cycle is being
\* offered another message.
C14_Witness ==
  /\ loop.pc = "claim" /\ loop.phase = "fallback"
  /\ lastGate.method = "timestamp" /\ ~lastGate.ok
  /\ lastGate.msg \in reservedMessageIds
  /\ loop.claim.msg # lastGate.msg
  /\ \E r \in Pending :
       /\ jobs[r].jobId = lastGate.jobId /\ r # loop.claim.reg
       /\ outcome[r].kind = "none"

\* ------------------------------------------------------ order within a cycle
\* The place of job r in the sequence s.
Pos(s, r) == Min({i \in 1..Len(s) : s[i] = r})

AtClaim(l, phase) == l.pc = "claim" /\ l.phase = phase

\* C15 - Within-cycle ordering: a step that increments a pollCount comes after
\* the fetch or after the answer to the last marker claim and leaves no marker
\* claim open; after a fallback claim no marker claim follows in the cycle;
\* the fallback-ready jobs are listed in the order of the registry and are
\* offered their candidates one at a time in that order; and no claim is
\* proposed for a message that was refused or granted earlier in the cycle.
C15_WithinCycleOrdering ==
  /\ [][(\E r \in Regs : jobs'[r].pollCount > jobs[r].pollCount) =>
          /\ loop.pc = "fetch" \/ AtClaim(loop, "marker")
          /\ AtClaim(loop', "fallback") \/ loop'.pc = "sleep"]_vars
  /\ [][(AtClaim(loop, "fallback") /\ loop' # loop) =>
          \/ loop'.pc = "sleep"
          \/ /\ AtClaim(loop', "fallback")
             /\ loop'.ready = loop.ready
             /\ loop'.fidx > loop.fidx]_vars
  /\ [][(~AtClaim(loop, "fallback") /\ AtClaim(loop', "fallback")) =>
          /\ \A i \in 1..Len(loop'.ready) : loop'.ready[i] \in Pending'
          /\ \A i, j \in 1..Len(loop'.ready) :
               i < j => Pos(pendingJobs', loop'.ready[i]) < Pos(pendingJobs', loop'.ready[j])]_vars
  /\ [][(loop'.pc = "claim" /\ loop' # loop) =>
          /\ loop'.claim.msg \notin refused'
          /\ \A r \in Regs : outcome'[r].msg # loop'.claim.msg]_vars

\* In one cycle the marker claim of a job was answered (refused), then the
\* two pending jobs were found fallback-ready, and a fallback claim is open.
C15_Witness ==
  /\ AtClaim(loop, "fallback")
  /\ Len(loop.ready) = 2
  /\ lastGate.method = "jobId" /\ ~lastGate.ok
  /\ lastGate.msg # loop.claim.msg

\* ------------------------------------------------------ whose message it is
\* Message m can be bound to job r by the method: by marker when it bears the
\* marker of r, by timestamp when it bears none; always a video message.
OwnMessage(r, m, method) ==
  /\ chat[m].isVideo
  /\ method = "jobId" => chat[m].mark = jobs[r].jobId
  /\ method = "timestamp" => ~Truthy(chat[m].mark)
  /\ Truthy(chat[m].mark) => chat[m].mark = jobs[r].jobId

\* C16 - A marker-bearing message is bound only to its own job: no claim is
\* made for, and no job is settled with, a video message whose marker is the
\* jobId of another job, by either method; a message with a marker is never
\* taken by timestamp.
C16_MarkerOnlyOwnJob ==
  /\ \A r \in Regs :
       outcome[r].kind = "matched" => OwnMessage(r, outcome[r].msg, outcome[r].method)
  /\ loop.pc = "claim" => OwnMessage(loop.claim.reg, loop.claim.msg, loop.claim.method)

\* Jobs A and B, one video message in the chat, marked for A: A is settled by
\* marker with it; B, fallback-eligible in the cycle that has just ended and
\* with the message inside its window, is still pending.
C16_Witness ==
  /\ loop.pc = "sleep" /\ loop.ended = "swept"
  /\ \E a \in Regs, b \in Pending :
       /\ outcome[a] = [kind |-> "matched", msg |-> outcome[a].msg, method |-> "jobId"]
       /\ \A k \in 1..Len(chat) : chat[k].isVideo => k = outcome[a].msg
       /\ jobs[b].pollCount >= FALLBACK_POLLS_THRESHOLD
       /\ Distance(b, outcome[a].msg) <= FALLBACK_WINDOW_MS
       /\ outcome[b].kind = "none"

\* ------------------------------------------------------- a fatal loop exit
\* An error escapes pollLoop at its delay, the one await outside its try: the
\* promise of pollLoop rejects and the catch of ensurePolling logs it
\* (lines 275-277).  pollerRunning is not written.
LoopFatal ==
  /\ loop.pc = "sleep"
  /\ loop' = LoopAt("idle", "fatal")
  /\ loopInstances' = loopInstances - 1
  /\ UNCHANGED <<now, disp, jobs, outcome, settles, pendingJobs, reservedMessageIds,
                 currentClient, pollerRunning, assignmentsCacheLoaded, store, chat>>
  /\ SameCycle

\* The runs in which the loop instance can end with an error.
FatalNext ==
  \/ \E r \in Regs, c \in CreatedAts : SendOk(r, c)
  \/ \E r \in Regs : CacheLoaded(r)
  \/ FetchReturn
  \/ ClaimReturn
  \/ PollLoopWake
  \/ LoopFatal
  \/ \E k \in MsgKinds : Arrive(k)
  \/ Tick

FatalSpec == Init /\ [][FatalNext]_vars

\* C17 - Restart after a fatal loop exit: a registration made while no loop
\* instance is active, whether none was started yet, the last one returned or
\* the last one ended with an error, starts a new instance.
C17_RestartAfterFatalExit ==
  [][\A r \in Regs :
       (disp[r] # "registered" /\ disp'[r] = "registered" /\ loopInstances = 0) =>
          loopInstances' = 1 /\ loop'.pc # "idle"]_vars

\* ------------------------------------------------------ the reserved-id cache
\* C18 - Reserved-id cache is load-once and grow-only: no step removes an id
\* from reservedMessageIds; a step that adds ids is either the one load from
\* the store, which ends before any job is registered, or the return of a
\* claim of this process, which adds the id claimed; and no load from the
\* store ends once the cache is loaded.
C18_LoadOnceGrowOnly ==
  /\ [][reservedMessageIds \subseteq reservedMessageIds']_vars
  /\ [][reservedMessageIds' # reservedMessageIds =>
          \/ /\ ~assignmentsCacheLoaded /\ assignmentsCacheLoaded'
             /\ \A r \in Regs : disp[r] # "registered"
          \/ /\ loop.pc = "claim"
             /\ reservedMessageIds' = reservedMessageIds \cup {loop.claim.msg}]_vars
  /\ [][(\E r \in Regs : disp[r] = "loading" /\ disp'[r] = "registered") =>
          ~assignmentsCacheLoaded]_vars

\* C19 - The cache never over-approximates the store: every id of
\* reservedMessageIds is reserved in the store, so a message that no job and
\* no process has reserved is never in the cache (and never skipped as
\* reserved).
C19_CacheWithinStore ==
  /\ reservedMessageIds \subseteq AllReserved(store)
  /\ \A m \in MsgIds : store[m] = Free => m \notin reservedMessageIds

\* The cache holds an id the store refused to this process and an id it
\* granted, both reserved in the store.
C19_Witness ==
  \E m1, m2 \in reservedMessageIds :
    /\ store[m1] = Other /\ m1 \in refused
    /\ \E r \in Regs : Matched(r, m2) /\ store[m2] = jobs[r].jobId

\* ------------------------------------------------------- a jobId used twice
\* sendPromptToSyntx called with any jobId, one already in use included:
\* SendOk with the jobId chosen by the caller.
SendOkAs(r, jid, c) ==
  /\ Callable(r)
  /\ currentClient' = TRUE
  /\ LET opts == [NoJob EXCEPT !.jobId = jid, !.jobCreatedAt = c, !.sentAt = now]
     IN IF assignmentsCacheLoaded
        THEN /\ Register(r, opts)
             /\ UNCHANGED <<reservedMessageIds, assignmentsCacheLoaded>>
        ELSE /\ disp' = [disp EXCEPT ![r] = "loading"]
             /\ jobs' = [jobs EXCEPT ![r] = opts]
             /\ UNCHANGED <<pendingJobs, pollerRunning, loopInstances, loop,
                            reservedMessageIds, assignmentsCacheLoaded>>
             /\ SameCycle
  /\ UNCHANGED <<now, outcome, settles, store, chat>>

\* The runs in which the callers' jobIds need not differ.
DupNext ==
  \/ \E r \in Regs, jid \in Regs, c \in CreatedAts : SendOkAs(r, jid, c)
  \/ \E r \in Regs : CacheLoaded(r)
  \/ FetchReturn
  \/ ClaimReturn
  \/ PollLoopWake
  \/ \E k \in MsgKinds : Arrive(k)
  \/ Tick

DupSpec == Init /\ [][DupNext]_vars

\* C20 - Duplicate jobId: the registry holds at most one entry per jobId; a
\* registration under a jobId that is pending takes the place of the earlier
\* entry without settling it; a job is never settled unless it is the entry
\* of the registry (the earlier job is never resolved nor rejected); and an
\* entry leaves the registry only settled or replaced (the later registration
\* is serviced as any job).
C20_DuplicateJobId ==
  /\ [](\A i, j \in 1..Len(pendingJobs) :
          i # j => jobs[pendingJobs[i]].jobId # jobs[pendingJobs[j]].jobId)
  /\ [][\A r \in Regs, q \in Pending :
          (r \notin Pending /\ r \in Pending' /\ jobs[q].jobId = jobs'[r].jobId) =>
             /\ q \notin Pending'
             /\ outcome'[q] = outcome[q] /\ settles'[q] = settles[q]
             /\ Len(pendingJobs') = Len(pendingJobs)]_vars
  /\ [][\A q \in Regs :
          (outcome[q].kind = "none" /\ outcome'[q].kind # "none") => q \in Pending]_vars
  /\ [][\A r \in Pending :
          r \notin Pending' =>
             \/ outcome'[r].kind # "none"
             \/ \E q \in Pending' : q \notin Pending /\ jobs'[q].jobId = jobs[r].jobId]_vars

=============================================================================
